---- MODULE Spec2Model ----
(***************************************************************************)
(* Model of the little-red-rover ESP32 firmware core:                      *)
(*   - drive_base_driver/motor_driver.c : per-motor velocity loop          *)
(*     (pid_callback, set_motor_power, set_motor_velocity, configure_motor)*)
(*   - socket_mgr/socket_mgr.c          : outbound queue and send task     *)
(*                                                                         *)
(* Floating point values (velocities in rad/s, unitless power) are kept as *)
(* fixed-point integers in millionths (Scale), truncating toward zero the  *)
(* way the C float -> integer conversions truncate.                        *)
(***************************************************************************)
EXTENDS Integers, Sequences, FiniteSets

(* ------------------------------ bounds -------------------------------- *)
\* number of control ticks (pid_callback invocations) explored
MaxTicks == 3
\* the pulse counter is explored within -MaxCount .. MaxCount
MaxCount == 2
\* number of envelopes producers hand to the outbound queue
MaxEnvelopes == 27
\* number of envelopes whose serialization fails
MaxBad == 1
\* number of datagrams that arrive on the socket
MaxDatagrams == 3
\* number of register_callback calls
MaxRegistrations == 2

(* --------------------------- arithmetic ------------------------------- *)
Scale == 1000 * 1000

\* C conversion to integer truncates toward zero
TruncDiv(a, b) == IF a >= 0 THEN a \div b ELSE -((-a) \div b)

Clamp(x, lo, hi) == IF x > hi THEN hi ELSE IF x < lo THEN lo ELSE x

(* ------------------------ motor_driver.c ------------------------------ *)
\* #define PWM_TIMER_RESOLUTION LEDC_TIMER_10_BIT
PWM_TIMER_RESOLUTION == 10
\* #define PULSES_PER_ROTATION 30.0
PULSES_PER_ROTATION == 30
\* #define PID_LOOP_PERIOD_MS 10.0
PID_LOOP_PERIOD_MS == 10
\* 2 * M_PI in millionths
TWO_PI == 6283185

\* pid_runtime_param of configure_motor; gains in tenths, limits in millionths
kp == 6
ki == 4
kd == 2
\* a limit typed twice too wide
max_output_wide == 2 * Scale
max_output == Scale
min_output == -Scale
max_integral == Scale \div 2
min_integral == -(Scale \div 2)

\* (((float)pulses / PULSES_PER_ROTATION) * (2 * M_PI)), in micro-radians
PULSES_TO_RAD(pulses) == TruncDiv(pulses * TWO_PI, PULSES_PER_ROTATION)

\* PULSES_TO_RAD(pulses_elapsed) * (PID_LOOP_PERIOD_MS / 1000.0)
ReportedSpeed(pulses) == TruncDiv(PULSES_TO_RAD(pulses) * PID_LOOP_PERIOD_MS, 1000)

\* (uint32_t)(p * (float)(1 << PWM_TIMER_RESOLUTION)), p >= 0
Duty(p) == (p * (2 ^ PWM_TIMER_RESOLUTION)) \div Scale

\* setpoints a velocity command handler may write (rad/s in millionths)
Velocities == {-2 * Scale, 0, Scale \div 2}

\* power arguments the actuator is exercised with on its own
PowerInputs == {-2 * Scale, -(3 * Scale) \div 2, -Scale, -(Scale \div 2), -1, 0,
                1, Scale \div 2, Scale, (3 * Scale) \div 2, 2 * Scale}

VARIABLES
    cmd_velocity,          \* motor->cmd_velocity
    reported_speed,        \* motor->reported_speed
    cmd_power,             \* motor->cmd_power
    encoder_count,         \* motor->encoder.count
    hw_count,              \* live count of the pulse counter unit
    edge_action,           \* edge action of the pulse counter channel
    duty_set,              \* duty written by ledc_set_duty, per channel
    duty_hw,               \* duty committed by ledc_update_duty, per channel
    pid,                   \* control block behind motor->pid_controller
    pc,                    \* position of the control tick
    current_encoder_count, \* local of pid_callback
    pulses_elapsed,        \* local of pid_callback
    error,                 \* local of pid_callback
    power,                 \* argument of set_motor_power
    ticks,                 \* completed control ticks
    first_count,           \* count read by the first tick
    delta_sum              \* sum of pulses_elapsed of the ticks after the first

VARIABLES
    tx_queue,              \* envelopes held by the FreeRTOS queue tx_queue
    tx_pc,                 \* position of socket_tx_task
    msg,                   \* local UdpPacket msg of socket_tx_task
    status,                \* local status of socket_tx_task (result of pb_encode)
    tx_buffer,             \* what pb_encode left in tx_buffer / stream.bytes_written
    logged,                \* envelopes an ESP_LOGE "Failed to serialize" was written for
    last_datagram,         \* latest datagram sendto put on the network
    sendto_result,         \* outcome of the latest sendto
    accepted,              \* number of envelopes the queue accepted
    bad_count,             \* number of accepted envelopes that cannot be serialized
    enq_result             \* what the latest producer got back

VARIABLES
    init_pc,               \* position of socket_mgr_init
    nvs_key,               \* whether the store holds "uros_ag_ip"
    AGENT_IP,              \* static char AGENT_IP[16]
    ip_err,                \* what the latest get_agent_ip returned
    socket_id,             \* static int socket_id
    bound,                 \* whether bind succeeded on socket_id
    status_log,            \* the set_status calls, in order
    queue_created,         \* tx_queue != NULL
    tx_started,            \* socket_tx_task has been created
    rx_pc,                 \* position of socket_rx_task
    rx_socket,             \* datagrams waiting in the socket, in arrival order
    arrived,               \* number of datagrams that have arrived
    rx_read,               \* number of datagrams recvfrom has returned
    rx_buffer,             \* the datagram recvfrom left in rx_buffer
    rx_type,               \* local type of socket_rx_task
    rx_status,             \* local status of socket_rx_task
    rx_callbacks,          \* static void (*rx_callbacks[MAX_RX_CALLBACKS])(void *)
    outside,               \* the memory that follows rx_callbacks
    registrations,         \* the register_callback calls, in order
    active,                \* datagrams whose handler is running
    invocations,           \* handler calls made by socket_rx_task, in order
    rx_logged              \* datagrams a "Decode failed" was logged for

rxVars == <<init_pc, nvs_key, AGENT_IP, ip_err, socket_id, bound, status_log,
            queue_created, tx_started, rx_pc, rx_socket, arrived, rx_read,
            rx_buffer, rx_type, rx_status, rx_callbacks, outside, registrations,
            active, invocations, rx_logged>>

txVars == <<tx_queue, tx_pc, msg, status, tx_buffer, logged, last_datagram,
            sendto_result, accepted, bad_count, enq_result>>

motorVars == <<cmd_velocity, reported_speed, cmd_power, encoder_count, hw_count,
               edge_action, duty_set, duty_hw, pid, pc, current_encoder_count,
               pulses_elapsed, error, power, ticks, first_count, delta_sum>>

vars == <<motorVars, txVars, rxVars>>

\* configure_motor: channels configured with duty 0, counter cleared and on
\* hold, fresh control block. encoder.count and cmd_velocity are not assigned
\* by configure_motor: they hold whatever the caller's struct holds.
InitMotor ==
    /\ cmd_velocity \in Velocities
    /\ encoder_count \in {0, 1}
    /\ reported_speed = 0
    /\ cmd_power = 0
    /\ hw_count = 0
    /\ edge_action = "hold"
    /\ duty_set = [a |-> 0, b |-> 0]
    /\ duty_hw = [a |-> 0, b |-> 0]
    /\ pid = [previous_err1 |-> 0, previous_err2 |-> 0, last_output |-> 0,
              integral_err |-> 0]
    /\ pc = "idle"
    /\ current_encoder_count = 0
    /\ pulses_elapsed = 0
    /\ error = 0
    /\ power = 0
    /\ ticks = 0
    /\ first_count = 0
    /\ delta_sum = 0

\* a setter that also clears the speed estimate
set_motor_velocity_reset(velocity) ==
    /\ cmd_velocity' = velocity
    /\ reported_speed' = 0
    /\ UNCHANGED <<cmd_power, encoder_count, hw_count, edge_action,
                   duty_set, duty_hw, pid, pc, current_encoder_count,
                   pulses_elapsed, error, power, ticks, first_count, delta_sum,
                   txVars, rxVars>>

(* set_motor_velocity (lines 50-53) *)
set_motor_velocity(velocity) ==
    /\ cmd_velocity' = velocity
    /\ UNCHANGED <<reported_speed, cmd_power, encoder_count, hw_count, edge_action,
                   duty_set, duty_hw, pid, pc, current_encoder_count,
                   pulses_elapsed, error, power, ticks, first_count, delta_sum,
                   txVars, rxVars>>

\* an edge on the encoder pin: counted up, counted down, or ignored on hold
CountEdge(count, action) ==
    IF action = "increase" THEN count + 1
    ELSE IF action = "decrease" THEN count - 1
    ELSE count

EncoderPulse ==
    /\ edge_action # "hold"
    /\ CountEdge(hw_count, edge_action) \in -MaxCount .. MaxCount
    /\ hw_count' = CountEdge(hw_count, edge_action)
    /\ UNCHANGED <<cmd_velocity, reported_speed, cmd_power, encoder_count,
                   edge_action, duty_set, duty_hw, pid, pc, current_encoder_count,
                   pulses_elapsed, error, power, ticks, first_count, delta_sum,
                   txVars, rxVars>>

(* pid_callback, lines 106-111: read the counter, delta, speed, error *)
ReadCount ==
    /\ pc = "idle"
    /\ ticks < MaxTicks
    /\ current_encoder_count' = hw_count
    /\ pulses_elapsed' = hw_count - encoder_count
    /\ reported_speed' = ReportedSpeed(hw_count - encoder_count)
    /\ error' = cmd_velocity - ReportedSpeed(hw_count - encoder_count)
    /\ first_count' = IF ticks = 0 THEN hw_count ELSE first_count
    /\ delta_sum' = IF ticks = 0 THEN 0 ELSE delta_sum + (hw_count - encoder_count)
    /\ pc' = "pid"
    /\ UNCHANGED <<cmd_velocity, cmd_power, encoder_count, hw_count, edge_action,
                   duty_set, duty_hw, pid, power, ticks, txVars, rxVars>>

\* pid_compute of the control block configured in configure_motor:
\* incremental form, output limited to [min_output, max_output], integral
\* limited to [min_integral, max_integral]
pid_compute(st, err) ==
    LET du == TruncDiv((err - st.previous_err1) * kp, 10)
              + TruncDiv((err - 2 * st.previous_err1 + st.previous_err2) * kd, 10)
              + TruncDiv(err * ki, 10)
        out == Clamp(du + st.last_output, min_output, max_output)
    IN  [output |-> out,
         state  |-> [previous_err1 |-> err,
                     previous_err2 |-> st.previous_err1,
                     last_output   |-> out,
                     integral_err  |-> Clamp(st.integral_err + err,
                                             min_integral, max_integral)]]

\* the argument pid_callback passes to set_motor_power (line 115)
PowerArgument(computed) == computed

(* pid_callback, lines 113-115: pid_compute, then the call of set_motor_power *)
PidCompute ==
    /\ pc = "pid"
    /\ LET r == pid_compute(pid, error)
       IN  /\ cmd_power' = r.output
           /\ pid' = r.state
           /\ power' = PowerArgument(r.output)
    /\ pc' = "set_duty_1"
    /\ UNCHANGED <<cmd_velocity, reported_speed, encoder_count, hw_count,
                   edge_action, duty_set, duty_hw, current_encoder_count,
                   pulses_elapsed, error, ticks, first_count, delta_sum, txVars, rxVars>>

(* set_motor_power, lines 57-82, one step per hardware call *)
\* duty of chan_b: line 58-60 (power > 0) or line 66
DutyB(p) == IF p > 0 THEN Duty(p) ELSE 0
\* duty of chan_a: line 61 (power > 0) or lines 67-69
DutyA(p) == IF p > 0 THEN 0 ELSE Duty(-p)
\* edge action of lines 62-64 (power > 0) or lines 70-72
EdgeAction(p) == IF p > 0 THEN "decrease" ELSE "increase"
\* the zero test of lines 74-78 left out
HoldActionDropped(p, action) == action
\* lines 74-78
HoldAction(p, action) == IF p = 0 THEN "hold" ELSE action

SetDutyFirst ==
    /\ pc = "set_duty_1"
    /\ duty_set' = [duty_set EXCEPT !.b = DutyB(power)]
    /\ pc' = "set_duty_2"
    /\ UNCHANGED <<cmd_velocity, reported_speed, cmd_power, encoder_count, hw_count,
                   edge_action, duty_hw, pid, current_encoder_count,
                   pulses_elapsed, error, power, ticks, first_count, delta_sum,
                   txVars, rxVars>>

SetDutySecond ==
    /\ pc = "set_duty_2"
    /\ duty_set' = [duty_set EXCEPT !.a = DutyA(power)]
    /\ pc' = "set_edge"
    /\ UNCHANGED <<cmd_velocity, reported_speed, cmd_power, encoder_count, hw_count,
                   edge_action, duty_hw, pid, current_encoder_count,
                   pulses_elapsed, error, power, ticks, first_count, delta_sum,
                   txVars, rxVars>>

SetEdgeAction ==
    /\ pc = "set_edge"
    /\ edge_action' = EdgeAction(power)
    /\ pc' = "hold_check"
    /\ UNCHANGED <<cmd_velocity, reported_speed, cmd_power, encoder_count, hw_count,
                   duty_set, duty_hw, pid, current_encoder_count,
                   pulses_elapsed, error, power, ticks, first_count, delta_sum,
                   txVars, rxVars>>

HoldIfZero ==
    /\ pc = "hold_check"
    /\ edge_action' = HoldAction(power, edge_action)
    /\ pc' = "update_a"
    /\ UNCHANGED <<cmd_velocity, reported_speed, cmd_power, encoder_count, hw_count,
                   duty_set, duty_hw, pid, current_encoder_count,
                   pulses_elapsed, error, power, ticks, first_count, delta_sum,
                   txVars, rxVars>>

\* ledc_update_duty(chan_a), line 80
UpdateDutyA ==
    /\ pc = "update_a"
    /\ duty_hw' = [duty_hw EXCEPT !.a = duty_set.a]
    /\ pc' = "update_b"
    /\ UNCHANGED <<cmd_velocity, reported_speed, cmd_power, encoder_count, hw_count,
                   edge_action, duty_set, pid, current_encoder_count,
                   pulses_elapsed, error, power, ticks, first_count, delta_sum,
                   txVars, rxVars>>

\* ledc_update_duty(chan_b), line 81, and the return of set_motor_power
UpdateDutyB ==
    /\ pc = "update_b"
    /\ duty_hw' = [duty_hw EXCEPT !.b = duty_set.b]
    /\ pc' = "store"
    /\ UNCHANGED <<cmd_velocity, reported_speed, cmd_power, encoder_count, hw_count,
                   edge_action, duty_set, pid, current_encoder_count,
                   pulses_elapsed, error, power, ticks, first_count, delta_sum,
                   txVars, rxVars>>

\* the counter read a second time at the end of the tick
StoredCountLive == hw_count
\* the value line 117 stores into motor->encoder.count
StoredCount == current_encoder_count

(* pid_callback, line 117 *)
StoreCount ==
    /\ pc = "store"
    /\ encoder_count' = StoredCount
    /\ ticks' = ticks + 1
    /\ pc' = "idle"
    /\ UNCHANGED <<cmd_velocity, reported_speed, cmd_power, hw_count, edge_action,
                   duty_set, duty_hw, pid, current_encoder_count,
                   pulses_elapsed, error, power, first_count, delta_sum, txVars, rxVars>>

set_motor_power ==
    \/ SetDutyFirst
    \/ SetDutySecond
    \/ SetEdgeAction
    \/ HoldIfZero
    \/ UpdateDutyA
    \/ UpdateDutyB

pid_callback ==
    \/ ReadCount
    \/ PidCompute
    \/ set_motor_power
    \/ StoreCount

\* set_motor_power applied on its own to a power argument p
ActuatorCall(p) ==
    /\ pc = "idle"
    /\ power' = p
    /\ pc' = "set_duty_1"
    /\ UNCHANGED <<cmd_velocity, reported_speed, cmd_power, encoder_count, hw_count,
                   edge_action, duty_set, duty_hw, pid, current_encoder_count,
                   pulses_elapsed, error, ticks, first_count, delta_sum, txVars, rxVars>>

ActuatorReturn ==
    /\ pc = "store"
    /\ pc' = "idle"
    /\ UNCHANGED <<cmd_velocity, reported_speed, cmd_power, encoder_count, hw_count,
                   edge_action, duty_set, duty_hw, pid, current_encoder_count,
                   pulses_elapsed, error, power, ticks, first_count, delta_sum,
                   txVars, rxVars>>

(* ------------------------- socket_mgr.c ------------------------------- *)
\* a queue created one slot too long
QueueLengthOff == 25 + 1
\* tx_queue = xQueueCreate(25, sizeof(UdpPacket))
QueueLength == 25

NoDatagram == [id |-> 0, complete |-> TRUE]

\* state after socket_mgr_init has created the queue and the send task
InitTx ==
    /\ tx_queue = <<>>
    /\ tx_pc = "receive"
    /\ msg = [id |-> 0, encodable |-> TRUE]
    /\ status = TRUE
    /\ tx_buffer = NoDatagram
    /\ logged = {}
    /\ last_datagram = NoDatagram
    /\ sendto_result = "none"
    /\ accepted = 0
    /\ bad_count = 0
    /\ enq_result = "none"

\* a producer hands an envelope to the queue: taken while there is room;
\* with the queue full the producer blocks, or (no wait) gets errQUEUE_FULL
Enqueue(encodable) ==
    /\ accepted < MaxEnvelopes
    /\ encodable \/ bad_count < MaxBad
    /\ Len(tx_queue) < QueueLength
    /\ tx_queue' = Append(tx_queue, [id |-> accepted + 1, encodable |-> encodable])
    /\ accepted' = accepted + 1
    /\ bad_count' = IF encodable THEN bad_count ELSE bad_count + 1
    /\ enq_result' = "pdTRUE"
    /\ UNCHANGED <<tx_pc, msg, status, tx_buffer, logged, last_datagram,
                   sendto_result, motorVars, rxVars>>

EnqueueFull ==
    /\ accepted < MaxEnvelopes
    /\ Len(tx_queue) >= QueueLength
    /\ enq_result' = "errQUEUE_FULL"
    /\ UNCHANGED <<tx_queue, accepted, bad_count, tx_pc, msg, status, tx_buffer,
                   logged, last_datagram, sendto_result, motorVars, rxVars>>

\* the oldest envelope copied out but left in the queue (xQueuePeek)
xQueuePeek(queue) == [item |-> Head(queue), rest |-> queue]
\* xQueueReceive(tx_queue, &msg, portMAX_DELAY): the oldest envelope, removed
xQueueReceive(queue) == [item |-> Head(queue), rest |-> Tail(queue)]

(* socket_tx_task, line 72: blocks while the queue is empty *)
TxReceive ==
    /\ tx_pc = "receive"
    /\ tx_queue # <<>>
    /\ msg' = xQueueReceive(tx_queue).item
    /\ tx_queue' = xQueueReceive(tx_queue).rest
    /\ tx_pc' = "encode"
    /\ UNCHANGED <<status, tx_buffer, logged, last_datagram, sendto_result,
                   accepted, bad_count, enq_result, motorVars, rxVars>>

\* where socket_tx_task goes after pb_encode (lines 76-80): the failure is
\* logged and control falls through to sendto
AfterEncode(ok) == "send"

(* socket_tx_task, lines 73-78: pb_encode into tx_buffer, log on failure *)
TxEncode ==
    /\ tx_pc = "encode"
    /\ status' = msg.encodable
    /\ tx_buffer' = [id |-> msg.id, complete |-> msg.encodable]
    /\ logged' = IF msg.encodable THEN logged ELSE logged \cup {msg.id}
    /\ tx_pc' = AfterEncode(msg.encodable)
    /\ UNCHANGED <<tx_queue, msg, last_datagram, sendto_result, accepted,
                   bad_count, enq_result, motorVars, rxVars>>

(* socket_tx_task, lines 80-85: sendto of stream.bytes_written bytes of     *)
(* tx_buffer; the result is not looked at                                   *)
TxSend(delivered) ==
    /\ tx_pc = "send"
    /\ last_datagram' = IF delivered THEN tx_buffer ELSE last_datagram
    /\ sendto_result' = IF delivered THEN "sent" ELSE "failed"
    /\ tx_pc' = "receive"
    /\ UNCHANGED <<tx_queue, msg, status, tx_buffer, logged, accepted, bad_count,
                   enq_result, motorVars, rxVars>>

socket_tx_task ==
    \/ TxReceive
    \/ TxEncode
    \/ \E delivered \in BOOLEAN : TxSend(delivered)

(* --------------- socket_mgr.c: initialization and receive ------------- *)
\* #define MAX_RX_CALLBACKS 1
MAX_RX_CALLBACKS == 1
\* eRxMsgTypes: the velocity command is the one inbound message type
eTwistCmd == 0
RxMsgTypes == {eTwistCmd}
\* handlers a caller may register
Handlers == {"handler_1", "handler_2"}

\* what a datagram holds: a well-formed velocity command, a velocity command
\* whose payload is cut short, an envelope of a type that is not the velocity
\* command, an envelope that cannot be read at all
DatagramKinds == {"twist", "twist_truncated", "unknown_type", "malformed"}

NoPacket == [id |-> 0, kind |-> "malformed"]

InitRx ==
    /\ init_pc = "start"
    /\ nvs_key = "absent"
    /\ AGENT_IP = ""
    /\ ip_err = "none"
    /\ socket_id = "none"
    /\ bound = FALSE
    /\ status_log = <<>>
    /\ queue_created = FALSE
    /\ tx_started = FALSE
    /\ rx_pc = "not_started"
    /\ rx_socket = <<>>
    /\ arrived = 0
    /\ rx_read = 0
    /\ rx_buffer = NoPacket
    /\ rx_type = "NULL"
    /\ rx_status = FALSE
    /\ rx_callbacks = [t \in 0 .. MAX_RX_CALLBACKS - 1 |-> "NULL"]
    /\ outside = "untouched"
    /\ registrations = <<>>
    /\ active = {}
    /\ invocations = <<>>
    /\ rx_logged = {}

\* the peer address is written to the store (provisioning, outside this code)
ProvisionKey ==
    /\ nvs_key = "absent"
    /\ nvs_key' = "present"
    /\ UNCHANGED <<init_pc, AGENT_IP, ip_err, socket_id, bound, status_log,
                   queue_created, tx_started, rx_pc, rx_socket, arrived, rx_read,
                   rx_buffer, rx_type, rx_status, rx_callbacks, outside,
                   registrations, active, invocations, rx_logged, motorVars, txVars>>

(* socket_mgr_init, line 146 *)
InitSetDisconnected ==
    /\ init_pc = "start"
    /\ status_log' = Append(status_log, "eAgentDisconnected")
    /\ init_pc' = "poll"
    /\ UNCHANGED <<nvs_key, AGENT_IP, ip_err, socket_id, bound,
                   queue_created, tx_started, rx_pc, rx_socket, arrived, rx_read,
                   rx_buffer, rx_type, rx_status, rx_callbacks, outside,
                   registrations, active, invocations, rx_logged, motorVars, txVars>>

\* get_agent_ip (lines 31-58): open_ok is the outcome of nvs_open, key the
\* state of the store, read_ok whether nvs_get_str can read; ip is AGENT_IP
\* before the call. A failed nvs_open is logged and ESP_OK is returned.
get_agent_ip(open_ok, key, read_ok, ip) ==
    IF ~open_ok THEN [err |-> "ESP_OK", ip |-> ip]
    ELSE IF ~read_ok THEN [err |-> "ESP_FAIL", ip |-> ip]
    ELSE IF key = "absent" THEN [err |-> "ESP_FAIL", ip |-> ip]
    ELSE [err |-> "ESP_OK", ip |-> "agent_ip"]

(* socket_mgr_init, lines 147-149: poll until get_agent_ip returns ESP_OK *)
InitPoll(open_ok, read_ok) ==
    /\ init_pc = "poll"
    /\ LET r == get_agent_ip(open_ok, nvs_key, read_ok, AGENT_IP)
       IN  /\ AGENT_IP' = r.ip
           /\ ip_err' = r.err
           /\ init_pc' = IF r.err = "ESP_OK" THEN "socket" ELSE "poll"
    /\ UNCHANGED <<nvs_key, socket_id, bound, status_log,
                   queue_created, tx_started, rx_pc, rx_socket, arrived, rx_read,
                   rx_buffer, rx_type, rx_status, rx_callbacks, outside,
                   registrations, active, invocations, rx_logged, motorVars, txVars>>

(* socket_mgr_init, lines 151-164: socket(); a failure is logged *)
InitSocket(created) ==
    /\ init_pc = "socket"
    /\ socket_id' = IF created THEN "valid" ELSE "invalid"
    /\ init_pc' = "bind"
    /\ UNCHANGED <<nvs_key, AGENT_IP, ip_err, bound, status_log,
                   queue_created, tx_started, rx_pc, rx_socket, arrived, rx_read,
                   rx_buffer, rx_type, rx_status, rx_callbacks, outside,
                   registrations, active, invocations, rx_logged, motorVars, txVars>>

(* socket_mgr_init, lines 166-172: bind(); Connected is reported on success, *)
(* a failure is logged                                                      *)
InitBind(bind_ok) ==
    /\ init_pc = "bind"
    /\ LET ok == bind_ok /\ socket_id = "valid"
       IN  /\ bound' = ok
           /\ status_log' = IF ok THEN Append(status_log, "eAgentConnected")
                            ELSE status_log
    /\ init_pc' = "queue"
    /\ UNCHANGED <<nvs_key, AGENT_IP, ip_err, socket_id,
                   queue_created, tx_started, rx_pc, rx_socket, arrived, rx_read,
                   rx_buffer, rx_type, rx_status, rx_callbacks, outside,
                   registrations, active, invocations, rx_logged, motorVars, txVars>>

(* socket_mgr_init, line 176 *)
InitQueue ==
    /\ init_pc = "queue"
    /\ queue_created' = TRUE
    /\ init_pc' = "tx_task"
    /\ UNCHANGED <<nvs_key, AGENT_IP, ip_err, socket_id, bound, status_log,
                   tx_started, rx_pc, rx_socket, arrived, rx_read,
                   rx_buffer, rx_type, rx_status, rx_callbacks, outside,
                   registrations, active, invocations, rx_logged, motorVars, txVars>>

(* socket_mgr_init, lines 178-184 *)
InitStartTx ==
    /\ init_pc = "tx_task"
    /\ tx_started' = TRUE
    /\ init_pc' = "rx_task"
    /\ UNCHANGED <<nvs_key, AGENT_IP, ip_err, socket_id, bound, status_log,
                   queue_created, rx_pc, rx_socket, arrived, rx_read,
                   rx_buffer, rx_type, rx_status, rx_callbacks, outside,
                   registrations, active, invocations, rx_logged, motorVars, txVars>>

(* socket_mgr_init, lines 186-192 *)
InitStartRx ==
    /\ init_pc = "rx_task"
    /\ rx_pc' = "recv"
    /\ init_pc' = "done"
    /\ UNCHANGED <<nvs_key, AGENT_IP, ip_err, socket_id, bound, status_log,
                   queue_created, tx_started, rx_socket, arrived, rx_read,
                   rx_buffer, rx_type, rx_status, rx_callbacks, outside,
                   registrations, active, invocations, rx_logged, motorVars, txVars>>

socket_mgr_init ==
    \/ InitSetDisconnected
    \/ \E open_ok \in BOOLEAN, read_ok \in BOOLEAN : InitPoll(open_ok, read_ok)
    \/ \E created \in BOOLEAN : InitSocket(created)
    \/ \E bind_ok \in BOOLEAN : InitBind(bind_ok)
    \/ InitQueue
    \/ InitStartTx
    \/ InitStartRx

\* a slot that is written only while it is empty
StoredHandlerFirst(old, callback) == IF old = "NULL" THEN callback ELSE old
\* the handler line 141 leaves in the slot: the one passed in
StoredHandler(old, callback) == callback

(* register_callback, lines 139-142: no check of type against the table;   *)
(* an index past the table lands in the memory that follows it             *)
register_callback(callback, type) ==
    /\ Len(registrations) < MaxRegistrations
    /\ registrations' = Append(registrations, [callback |-> callback, type |-> type])
    /\ rx_callbacks' =
           IF type \in DOMAIN rx_callbacks
           THEN [rx_callbacks EXCEPT ![type] = StoredHandler(rx_callbacks[type], callback)]
           ELSE rx_callbacks
    /\ outside' = IF type \in DOMAIN rx_callbacks THEN outside ELSE callback
    /\ UNCHANGED <<init_pc, nvs_key, AGENT_IP, ip_err, socket_id, bound, status_log,
                   queue_created, tx_started, rx_pc, rx_socket, arrived, rx_read,
                   rx_buffer, rx_type, rx_status, active, invocations, rx_logged,
                   motorVars, txVars>>

\* a datagram for the bound port arrives and waits in the socket
Arrive(kind) ==
    /\ bound
    /\ arrived < MaxDatagrams
    /\ rx_socket' = Append(rx_socket, [id |-> arrived + 1, kind |-> kind])
    /\ arrived' = arrived + 1
    /\ UNCHANGED <<init_pc, nvs_key, AGENT_IP, ip_err, socket_id, bound, status_log,
                   queue_created, tx_started, rx_pc, rx_read, rx_buffer, rx_type,
                   rx_status, rx_callbacks, outside, registrations, active,
                   invocations, rx_logged, motorVars, txVars>>

(* socket_rx_task, lines 108-113: recvfrom returns the oldest datagram *)
RxRecv ==
    /\ rx_pc = "recv"
    /\ rx_socket # <<>>
    /\ rx_buffer' = Head(rx_socket)
    /\ rx_socket' = Tail(rx_socket)
    /\ rx_read' = rx_read + 1
    /\ rx_pc' = "decode"
    /\ UNCHANGED <<init_pc, nvs_key, AGENT_IP, ip_err, socket_id, bound, status_log,
                   queue_created, tx_started, arrived, rx_type, rx_status,
                   rx_callbacks, outside, registrations, active, invocations,
                   rx_logged, motorVars, txVars>>

\* where socket_rx_task goes when recvfrom fails (lines 115-117): it returns
AfterRecvError == "returned"

(* socket_rx_task, lines 108-117: recvfrom fails, len < 0 *)
RxRecvFail ==
    /\ rx_pc = "recv"
    /\ rx_pc' = AfterRecvError
    /\ UNCHANGED <<init_pc, nvs_key, AGENT_IP, ip_err, socket_id, bound, status_log,
                   queue_created, tx_started, rx_socket, arrived, rx_read,
                   rx_buffer, rx_type, rx_status, rx_callbacks, outside,
                   registrations, active, invocations, rx_logged, motorVars, txVars>>

\* decode_unionmessage_type: the descriptor of the envelope's type, none when
\* the envelope cannot be read or names no known type
decode_unionmessage_type(kind) ==
    IF kind \in {"twist", "twist_truncated"} THEN "TwistCmd_fields" ELSE "NULL"

\* decode_unionmessage_contents(&stream, TwistCmd_fields, &msg)
decode_unionmessage_contents(kind) == kind = "twist"

\* lines 125-130: the handler is called after decode_unionmessage_contents
\* whatever its result
CallsHandler(type, decoded) == type = "TwistCmd_fields"

(* socket_rx_task, lines 119-128 *)
RxDecode ==
    /\ rx_pc = "decode"
    /\ LET type == decode_unionmessage_type(rx_buffer.kind)
           decoded == /\ type = "TwistCmd_fields"
                      /\ decode_unionmessage_contents(rx_buffer.kind)
       IN  /\ rx_type' = type
           /\ rx_status' = decoded
           /\ rx_pc' = IF CallsHandler(type, decoded) THEN "call" ELSE "check"
    /\ UNCHANGED <<init_pc, nvs_key, AGENT_IP, ip_err, socket_id, bound, status_log,
                   queue_created, tx_started, rx_socket, arrived, rx_read,
                   rx_buffer, rx_callbacks, outside, registrations, active,
                   invocations, rx_logged, motorVars, txVars>>

\* the handler handed to another task, the loop going on at once
AfterCallAsync == "check"
\* where socket_rx_task is once it has called the handler (line 129): inside
\* it, the call is synchronous
AfterCall == "in_handler"

(* socket_rx_task, line 129: the call through rx_callbacks[eTwistCmd]; a    *)
(* call through a null slot faults                                          *)
RxCall ==
    /\ rx_pc = "call"
    /\ IF rx_callbacks[eTwistCmd] = "NULL"
       THEN /\ rx_pc' = "null_call"
            /\ UNCHANGED <<active, invocations>>
       ELSE /\ rx_pc' = AfterCall
            /\ active' = active \cup {rx_buffer.id}
            /\ invocations' = Append(invocations,
                                     [handler |-> rx_callbacks[eTwistCmd],
                                      id |-> rx_buffer.id,
                                      decoded |-> rx_status,
                                      regs |-> Len(registrations)])
    /\ UNCHANGED <<init_pc, nvs_key, AGENT_IP, ip_err, socket_id, bound, status_log,
                   queue_created, tx_started, rx_socket, arrived, rx_read,
                   rx_buffer, rx_type, rx_status, rx_callbacks, outside,
                   registrations, rx_logged, motorVars, txVars>>

\* the handler of datagram id returns
HandlerReturn(id) ==
    /\ id \in active
    /\ active' = active \ {id}
    /\ rx_pc' = IF rx_pc = "in_handler" THEN "check" ELSE rx_pc
    /\ UNCHANGED <<init_pc, nvs_key, AGENT_IP, ip_err, socket_id, bound, status_log,
                   queue_created, tx_started, rx_socket, arrived, rx_read,
                   rx_buffer, rx_type, rx_status, rx_callbacks, outside,
                   registrations, invocations, rx_logged, motorVars, txVars>>

(* socket_rx_task, lines 132-134: log when status is false, next datagram *)
RxCheck ==
    /\ rx_pc = "check"
    /\ rx_logged' = IF rx_status THEN rx_logged ELSE rx_logged \cup {rx_buffer.id}
    /\ rx_pc' = "recv"
    /\ UNCHANGED <<init_pc, nvs_key, AGENT_IP, ip_err, socket_id, bound, status_log,
                   queue_created, tx_started, rx_socket, arrived, rx_read,
                   rx_buffer, rx_type, rx_status, rx_callbacks, outside,
                   registrations, active, invocations, motorVars, txVars>>

socket_rx_task ==
    \/ RxRecv
    \/ RxRecvFail
    \/ RxDecode
    \/ RxCall
    \/ \E id \in 1 .. MaxDatagrams : HandlerReturn(id)
    \/ RxCheck

(* ------------------------ specifications ------------------------------ *)
Init == InitMotor /\ InitTx /\ InitRx

\* the velocity loop of one motor, with encoder pulses and setpoint writes
Next ==
    \/ pid_callback
    \/ EncoderPulse
    \/ \E v \in Velocities : set_motor_velocity(v)

Spec == Init /\ [][Next]_vars

\* the Motor Actuator on its own, over power arguments inside and outside [-1, 1]
InitActuator == InitMotor /\ cmd_velocity = 0 /\ encoder_count = 0 /\ InitTx /\ InitRx

NextActuator ==
    \/ \E p \in PowerInputs : ActuatorCall(p)
    \/ set_motor_power
    \/ ActuatorReturn
    \/ EncoderPulse

SpecActuator == InitActuator /\ [][NextActuator]_vars

\* the outbound path: producers and the send task
InitTransport == InitMotor /\ cmd_velocity = 0 /\ encoder_count = 0 /\ InitTx /\ InitRx

NextTx ==
    \/ \E encodable \in BOOLEAN : Enqueue(encodable)
    \/ EnqueueFull
    \/ socket_tx_task

SpecTx == InitTransport /\ [][NextTx]_vars

\* initialization, registration and the receive loop, in any order
NextRx ==
    \/ socket_mgr_init
    \/ ProvisionKey
    \/ \E callback \in Handlers, type \in RxMsgTypes : register_callback(callback, type)
    \/ \E kind \in DatagramKinds : Arrive(kind)
    \/ socket_rx_task

SpecRx == InitTransport /\ [][NextRx]_vars

(* ----------------------------- claims --------------------------------- *)
\* the control tick is outside set_motor_power: the argument last passed has
\* been applied completely
PowerApplied == pc \in {"idle", "pid", "store"}

\* full-scale count of the PWM resolution
FullScale == 2 ^ PWM_TIMER_RESOLUTION

\* C1: after set_motor_power(power) with power > 0 the forward channel
\* (chan_b, the one positive power drives) carries power * max_duty, the
\* reverse channel (chan_a) carries 0 and the counter counts up; with
\* power < 0 the forward channel carries 0, the reverse channel carries
\* -power * max_duty and the counter counts down.
C1_ActuatorMapping ==
    pc = "store" =>
        /\ power > 0 => /\ duty_hw.b = Duty(power)
                        /\ duty_hw.a = 0
                        /\ edge_action = "increase"
        /\ power < 0 => /\ duty_hw.b = 0
                        /\ duty_hw.a = Duty(-power)
                        /\ edge_action = "decrease"

\* C2: whenever the applied power is exactly zero (after configure_motor and
\* after every completed set_motor_power(0)), both channel duties are 0 and
\* the pulse counter is on hold.
C2_ZeroPowerHold ==
    (PowerApplied /\ power = 0) =>
        /\ duty_hw = [a |-> 0, b |-> 0]
        /\ duty_set = [a |-> 0, b |-> 0]
        /\ edge_action = "hold"

\* set_motor_power(0) has completed after a positive power had the counter
\* count down
C2_Witness == pc = "store" /\ power = 0 /\ hw_count < 0

\* C3: the duty written to either channel never exceeds the full-scale count
\* (1024) and is never negative, for every power argument.
C3_DutyWithinFullScale ==
    /\ duty_set.a \in 0 .. FullScale
    /\ duty_set.b \in 0 .. FullScale

\* C4: the stored last count is the live count the tick's delta was computed
\* from, so the deltas of the ticks after the first sum to the change of the
\* counter between the first read and the latest read.
C4_DeltaAccounting ==
    /\ (ticks >= 1 \/ pc # "idle") =>
           delta_sum = current_encoder_count - first_count
    /\ (ticks >= 1 /\ pc = "idle") => encoder_count = current_encoder_count
    /\ (ticks >= 1 /\ pc # "idle") =>
           pulses_elapsed = current_encoder_count - encoder_count

\* a tick after the first is about to store its count, pulses were counted
\* in earlier deltas and a pulse has arrived since this tick read the counter
C4_Witness ==
    /\ pc = "store"
    /\ ticks >= 1
    /\ delta_sum # 0
    /\ hw_count # current_encoder_count

\* angular displacement of a tick divided by the control period in seconds
VelocityOf(pulses) == TruncDiv(PULSES_TO_RAD(pulses) * 1000, PID_LOOP_PERIOD_MS)

\* C5: in every control tick reported_velocity is the tick's angular
\* displacement divided by the control period in seconds.
C5_VelocityEstimate ==
    (ticks >= 1 /\ pc # "idle") => reported_speed = VelocityOf(pulses_elapsed)

\* C6: with a positive setpoint the first tick drives with positive power;
\* the pulses counted under that drive give the following tick a positive
\* reported_velocity, so its error is below the setpoint.
C6_SignMatchesDirection ==
    (pc = "pid" /\ ticks = 1 /\ cmd_velocity > 0 /\ power > 0
        /\ pulses_elapsed # 0) =>
        /\ reported_speed > 0
        /\ error < cmd_velocity

\* C7: commanded_power lies in [-1.0, 1.0], the integral term lies in
\* [-0.5, 0.5], and the power handed to the Motor Actuator is commanded_power.
C7_PowerBounded ==
    /\ cmd_power \in -Scale .. Scale
    /\ pid.integral_err \in -(Scale \div 2) .. (Scale \div 2)
    /\ power = cmd_power

\* the first tick meets an error of -2 rad/s: the unclamped output would be
\* -2.4, and the clamped -1.0 is on its way to the actuator
C7_Witness ==
    /\ pc = "set_duty_1"
    /\ ticks = 0
    /\ error = -2 * Scale
    /\ cmd_power = -Scale
    /\ pid.integral_err = -(Scale \div 2)

\* C8: envelopes are dequeued in the order they were enqueued (ids are given
\* in enqueue order), every datagram carries the envelope dequeued last, and
\* no envelope is transmitted twice or out of order.
C8_FifoOrder ==
    [][/\ msg' # msg => msg'.id = msg.id + 1
       /\ (tx_pc = "send" /\ tx_pc' = "receive" /\ sendto_result' = "sent") =>
              /\ last_datagram'.id = msg.id
              /\ last_datagram'.id > last_datagram.id]_vars

\* more envelopes than the queue holds have gone through it, the latest
\* datagram left while producers had already queued more
C8_Witness ==
    /\ sendto_result = "sent"
    /\ last_datagram.id > QueueLength
    /\ tx_queue # <<>>

\* C9: the queue never holds more than 25 envelopes, and the envelopes it
\* holds are exactly the accepted ones not yet dequeued, in order: none is
\* lost or overwritten. A producer meets a full queue only by blocking or by
\* an explicit errQUEUE_FULL.
C9_Capacity ==
    /\ Len(tx_queue) <= 25
    /\ msg.id + Len(tx_queue) = accepted
    /\ \A i \in 1 .. Len(tx_queue) : tx_queue[i].id = msg.id + i

\* the queue is full and a producer has been told so
C9_Witness == Len(tx_queue) = 25 /\ enq_result = "errQUEUE_FULL"

\* C10: no datagram is transmitted for an envelope whose serialization
\* failed.
C10_FailedEnvelopeNotSent == last_datagram.id \notin logged

\* the datagram in rx_buffer has been dealt with completely
RxProcessed == rx_pc = "recv" /\ rx_read >= 1

\* C11: for a datagram that is not a well-formed velocity command (unknown
\* type, unreadable envelope, truncated payload) the receive loop logs,
\* invokes no handler and goes on to the next datagram.
C11_NoHandlerOnDecodeFailure ==
    /\ \A i \in 1 .. Len(invocations) : invocations[i].decoded
    /\ (RxProcessed /\ rx_buffer.kind # "twist") => rx_buffer.id \in rx_logged

\* C12: a socket receive failure does not end the receive loop.
C12_ReceiveLoopKeepsRunning == rx_pc # "returned"

\* C13: datagrams are read in arrival order (ids are given on arrival), the
\* handler of a datagram has returned before the loop does anything else, so
\* before the next datagram is read, and two handlers never run together.
C13_InboundOrder ==
    /\ Cardinality(active) <= 1
    /\ rx_pc # "in_handler" => active = {}
    /\ rx_pc = "in_handler" => active = {rx_buffer.id}
    /\ rx_read >= 1 => rx_buffer.id = rx_read
    /\ \A i \in 1 .. Len(rx_socket) : rx_socket[i].id = rx_read + i
    /\ \A i, j \in 1 .. Len(invocations) :
           i < j => invocations[i].id < invocations[j].id

\* the handler of a second velocity command is running while a later
\* datagram waits in the socket
C13_Witness ==
    /\ rx_pc = "in_handler"
    /\ Len(invocations) >= 2
    /\ rx_socket # <<>>

\* C14: Disconnected is reported first; Connected is reported only with the
\* peer address retrieved and the socket bound, and nothing is reported
\* after it.
C14_ConnectionStatus ==
    /\ status_log # <<>> => status_log[1] = "eAgentDisconnected"
    /\ \A i \in 1 .. Len(status_log) :
           status_log[i] = "eAgentConnected" =>
               /\ AGENT_IP = "agent_ip"
               /\ bound
               /\ i = Len(status_log)

\* C15: socket_mgr_init does not get past the poll (to socket, bind, the
\* queue and the tasks) until the peer address has been retrieved.
C15_AddressBeforeSocket ==
    init_pc \notin {"start", "poll"} => AGENT_IP = "agent_ip"

\* C16: the hardware never carries one channel's new duty next to the other
\* channel's stale one; in particular both channels are never driven with a
\* non-zero duty at the same time.
C16_DutyPairAtomic == ~(duty_hw.a > 0 /\ duty_hw.b > 0)

\* the handler registered last for type t among the first n registrations
LastRegistered(t, n) ==
    LET idx == {k \in 1 .. n : registrations[k].type = t}
    IN  IF idx = {} THEN "NULL"
        ELSE registrations[CHOOSE k \in idx : \A m \in idx : m <= k].callback

\* C17: each type's slot holds the handler registered last for it, a
\* datagram invokes that handler and no other, at most once, and
\* register_callback changes nothing outside the table.
C17_CallbackTable ==
    /\ outside = "untouched"
    /\ \A t \in DOMAIN rx_callbacks :
           rx_callbacks[t] = LastRegistered(t, Len(registrations))
    /\ \A i \in 1 .. Len(invocations) :
           invocations[i].handler = LastRegistered(eTwistCmd, invocations[i].regs)
    /\ \A i, j \in 1 .. Len(invocations) :
           i # j => invocations[i].id # invocations[j].id

\* a velocity command went to the first handler, the handler was replaced by
\* another one, and a later velocity command went to the new handler
C17_Witness ==
    /\ Len(registrations) = 2
    /\ registrations[1].callback # registrations[2].callback
    /\ \E i, j \in 1 .. Len(invocations) :
           /\ invocations[i].regs = 1
           /\ invocations[j].regs = 2
           /\ invocations[j].handler = registrations[2].callback

\* C18: the receive loop never calls through an empty slot of the table.
C18_NoNullCall == rx_pc # "null_call"

\* C19: the send and the receive task exist only with the socket created and
\* bound and the outbound queue created.
C19_TasksOnBoundSocket ==
    (tx_started \/ rx_pc # "not_started") =>
        /\ socket_id = "valid"
        /\ bound
        /\ queue_created

\* C20: a write of the setpoint changes commanded_velocity alone, the
\* control tick never writes it, and a tick computes its error from the
\* setpoint it finds when it starts, the one written last.
C20_SetpointOwnership ==
    [][/\ cmd_velocity' # cmd_velocity =>
              UNCHANGED <<reported_speed, cmd_power, encoder_count, hw_count,
                          edge_action, duty_set, duty_hw, pid, pc,
                          current_encoder_count, pulses_elapsed, error, power,
                          ticks>>
       /\ pc' # pc => cmd_velocity' = cmd_velocity
       /\ (pc = "idle" /\ pc' = "pid") =>
              error' = cmd_velocity - reported_speed']_vars

\* the setpoint was changed between two ticks and the later tick has computed
\* its error from the new one
C20_Witness ==
    /\ pc = "pid"
    /\ ticks >= 1
    /\ error = cmd_velocity - reported_speed
    /\ error - pid.previous_err1 > Scale
====
